---- MODULE Spec2Model ----
(***************************************************************************)
(* Model of four parts of the explorer API repository:                     *)
(*                                                                         *)
(*  - the list loader of withdraw requests,                                *)
(*    internal/repository/db/withdrawal.go (MongoDbBridge.Withdrawals and  *)
(*    its helpers wrListInit, wrListCollectRangeMarks, wrListBorderPk,     *)
(*    wrListFilter, wrListOptions, wrListLoad), specification SpecList;    *)
(*                                                                         *)
(*  - the transaction dispatcher,                                          *)
(*    internal/repository/svc/dispatch_trx.go (trxDispatcher.dispatch,     *)
(*    process, pushAccounts, waitAndStore, updateLastSeenBlock, close):    *)
(*    specification Spec is the pipeline of every kind of transaction,     *)
(*    SpecTick the pipeline with the block observer ticker, SpecStop the   *)
(*    pipeline with the ticker and the shutdown, SpecLog the pipeline fed  *)
(*    with transactions of several logs, SpecResume the pipeline with the  *)
(*    ticker restarted on a store that holds a checkpoint;                 *)
(*                                                                         *)
(*  - the writers of withdraw requests, MongoDbBridge.AddWithdrawal and    *)
(*    UpdateWithdrawal of the same file: specification SpecWr has          *)
(*    concurrent callers of both, SpecAdd of AddWithdrawal alone;          *)
(*                                                                         *)
(*  - FtmBridge.GovernanceOptionStates of the governance bridge,           *)
(*    internal/repository/p2p, specification SpecGov.                      *)
(***************************************************************************)
EXTENDS Integers, Sequences, FiniteSets, TLC

\* ------------------------------------------------------------------------
\* Bounds of the model
\* ------------------------------------------------------------------------

\* primary keys (_id) of withdraw requests are 1..MaxPk
MaxPk == 3

\* creation time stamps (cr_time) of withdraw requests are 1..MaxCr
MaxCr == 2

\* the requested page size is in -MaxCount..MaxCount
MaxCount == 2

\* the chain data source delivers at most MaxTrx ingestion events
MaxTrx == 2

\* block numbers are 1..MaxBlk
MaxBlk == 2

\* account addresses of senders and recipients are 1..MaxAddr
MaxAddr == 2

\* a transaction carries at most MaxLogs logs
MaxLogs == 1

\* a transaction of the log pipeline carries at most MaxBurst logs
MaxBurst == 2

\* capacity of the account queue (1000 in the source, scaled down)
trxAddressQueueCapacity == 2

\* capacity of the log queue (5000 in the source, scaled down)
trxLogQueueCapacity == 1

\* capacity of the notification channel onTransaction, which is made by
\* the owner of the dispatcher
onTransactionCapacity == 1

\* the absent value: a nil pointer in the source
Nil == 0

\* ------------------------------------------------------------------------
\* State
\* ------------------------------------------------------------------------

VARIABLES
    \* --- withdraw requests list (db/withdrawal.go) ---
    col,        \* the "withdraws" collection: a set of documents
    rpc,        \* position of the Withdrawals call in progress
    rq,         \* its arguments: cursor, count, filter
    list,       \* the types.WithdrawRequestList being built
    rerr,       \* the error returned by Withdrawals
    dirty,      \* a document was inserted since the call started
    dbOps,      \* the operations the call made on the collection, in order
    page1,      \* the top page the caller holds from its previous call
    \* --- transaction dispatcher (svc/dispatch_trx.go) ---
    pc,         \* position of the dispatch routine
    cur,        \* number of the event process is working on
    wi,          \* number of the work item process is about to push
    evt,        \* the ingestion events received so far, by arrival number
    nIn,        \* how many events were received
    inClosed,   \* the inTransaction channel was closed by its producer
    wg,         \* the sync.WaitGroup counter of each transaction
    outAccount, \* the account queue
    outLog,     \* the log queue
    accCur,     \* the AccountTouch the account consumer is handling
    logCur,     \* the log record the log consumer is handling
    pushed,     \* the work items sent for each transaction, in order
    signaled,   \* how many completion signals each transaction received
    ws,         \* position of the waitAndStore task of each transaction
    stored,     \* transactions in the durable store
    failed,     \* transactions whose store failed (logged)
    trxCount,   \* the transaction count estimate
    cache,      \* transactions in the ring cache
    blkObserver,    \* the in-memory last processed block marker
    lastKnownBlock, \* the durable checkpoint
    lkbErr,     \* the result of the last UpdateLastKnownBlock call
    lsb,        \* the marker value updateLastSeenBlock has read
    sent,       \* the transactions sent on onTransaction, in order
    nRead,      \* how many of them the listeners have read
    tick,       \* a tick is waiting in the ticker channel bot.C
    botStopped, \* the ticker was stopped
    sigStop,    \* number of values in the sigStop channel
    chClosed,   \* dispatch has closed sigStop, outAccount and outLog
    cl,         \* position of the caller of close()
    \* --- governance bridge (p2p bridge, GovernanceOptionStates) ---
    govOpts,    \* what the contract answers for each option of the proposal
    govPc,      \* position of the GovernanceOptionStates call
    govRes,     \* the option indexes of the states the call returned
    \* --- withdraw requests store (db/withdrawal.go, Add/Update) ---
    wrStore,    \* the records of the "withdraws" collection, by request
    wrIndex,    \* the unique index on (addr, to) exists
    wrOnce,     \* state of the initWithdrawals sync.Once of the process
    aw          \* the callers of AddWithdrawal and UpdateWithdrawal

listVars == <<col, rpc, rq, list, rerr, dirty, dbOps, page1>>

loopVars == <<pc, cur, wi, evt, nIn, inClosed>>
queueVars == <<wg, outAccount, outLog, accCur, logCur, pushed, signaled>>
storeVars == <<ws, stored, failed, trxCount, cache, blkObserver>>
tickVars == <<lastKnownBlock, lkbErr, lsb, tick, botStopped>>
stopVars == <<sigStop, chClosed, cl>>
outVars == <<sent, nRead>>

dispVars == <<loopVars, queueVars, storeVars, tickVars, stopVars, outVars>>

govVars == <<govOpts, govPc, govRes>>
wrVars == <<wrStore, wrIndex, wrOnce, aw>>
extVars == <<govVars, wrVars>>

vars == <<listVars, dispVars, extVars>>

\* ------------------------------------------------------------------------
\* The withdraw requests list: documents, filters, sorting
\* ------------------------------------------------------------------------

\* a document of the collection: primary key, creation time stamp and
\* whether the caller's selective filter matches it
Docs == [pk : 1..MaxPk, cr : 1..MaxCr, m : BOOLEAN]

\* the caller's filter: nil (replaced by the empty filter, which matches
\* every document) or a selective filter
Filters == {"all", "sel"}

\* the cursor of a request: nil or a primary key
Cursors == {Nil} \cup (1..MaxPk)

\* the page size of a request
Counts == (-MaxCount)..MaxCount

Matches(d, f) == f = "all" \/ d.m

\* col.CountDocuments(ctx, filter)
CountDocuments(c, f) == Cardinality({d \in c : Matches(d, f)})

\* the order of SetSort(bson.D{{cr_time, sd}, {_id, sd}}): a comes before b
SortBefore(a, b, sd) ==
    IF sd = -1
    THEN a.cr > b.cr \/ (a.cr = b.cr /\ a.pk > b.pk)
    ELSE a.cr < b.cr \/ (a.cr = b.cr /\ a.pk < b.pk)

RECURSIVE Sorted(_, _)
Sorted(S, sd) ==
    IF S = {} THEN <<>>
    ELSE LET h == CHOOSE x \in S : \A y \in S \ {x} : SortBefore(x, y, sd)
         IN  <<h>> \o Sorted(S \ {h}, sd)

Take(s, n) == IF Len(s) <= n THEN s ELSE SubSeq(s, 1, n)

\* the key comparison wrListFilter appends to the list filter
InRange(d, r) ==
    CASE r.op = "gte" -> d.pk >= r.val
      [] r.op = "lte" -> d.pk <= r.val
      [] r.op = "gt"  -> d.pk > r.val
      [] r.op = "lt"  -> d.pk < r.val
      [] OTHER        -> TRUE

NoRange == [op |-> "none", val |-> 0]

\* the value of list before wrListInit made it, and the nil list returned
\* with an error
NoList == [Collection |-> <<>>, Total |-> 0, First |-> 0, Last |-> 0,
           IsStart |-> FALSE, IsEnd |-> FALSE, Filter |-> "all",
           Range |-> NoRange]

NoRq == [cursor |-> Nil, count |-> 0, filter |-> "all"]

\* the caller holds no page
NoPage == [count |-> 0, filter |-> "all", Collection |-> <<>>]

\* wrListBorderPk: the primary key of the first of the given documents in
\* the given order, or an error (ErrNoDocuments) when there is none
wrListBorderPk(docs, sd) ==
    IF docs = {} THEN [err |-> TRUE, pk |-> 0]
    ELSE [err |-> FALSE, pk |-> Sorted(docs, sd)[1].pk]

\* wrListCollectRangeMarks changed to fall back to the top of the list when
\* the cursor does not resolve
wrListCollectRangeMarks_fallback(c, l, cursor, count) ==
    LET matching == {d \in c : Matches(d, l.Filter)}
        top    == wrListBorderPk(matching, -1)
        bottom == wrListBorderPk(matching, 1)
        byKey  == wrListBorderPk({d \in c : d.pk = cursor}, -1)
    IN  IF cursor = Nil /\ count > 0
        THEN [err |-> top.err,
              list |-> [l EXCEPT !.First = top.pk, !.IsStart = TRUE]]
        ELSE IF cursor = Nil /\ count < 0
        THEN [err |-> bottom.err,
              list |-> [l EXCEPT !.First = bottom.pk, !.IsEnd = TRUE]]
        ELSE IF cursor # Nil
        THEN [err |-> FALSE,
              list |-> [l EXCEPT !.First = IF byKey.err THEN top.pk
                                           ELSE byKey.pk]]
        ELSE [err |-> FALSE, list |-> l]

\* wrListCollectRangeMarks: the list with its First mark, or an error
wrListCollectRangeMarks(c, l, cursor, count) ==
    LET matching == {d \in c : Matches(d, l.Filter)}
        top    == wrListBorderPk(matching, -1)
        bottom == wrListBorderPk(matching, 1)
        byKey  == wrListBorderPk({d \in c : d.pk = cursor}, -1)
    IN  IF cursor = Nil /\ count > 0
        THEN [err |-> top.err,
              list |-> [l EXCEPT !.First = top.pk, !.IsStart = TRUE]]
        ELSE IF cursor = Nil /\ count < 0
        THEN [err |-> bottom.err,
              list |-> [l EXCEPT !.First = bottom.pk, !.IsEnd = TRUE]]
        ELSE IF cursor # Nil
        THEN [err |-> byKey.err, list |-> [l EXCEPT !.First = byKey.pk]]
        ELSE [err |-> FALSE, list |-> l]

\* wrListFilter changed to an inclusive comparison for a cursor as well
wrListFilter_inclusive(cursor, count, l) ==
    IF count > 0 THEN [op |-> "gte", val |-> l.First]
                 ELSE [op |-> "lte", val |-> l.First]

\* wrListFilter: the key comparison added to the filter of the list
wrListFilter(cursor, count, l) ==
    IF cursor = Nil
    THEN IF count > 0 THEN [op |-> "gte", val |-> l.First]
                      ELSE [op |-> "lte", val |-> l.First]
    ELSE IF count > 0 THEN [op |-> "gt", val |-> l.First]
                      ELSE [op |-> "lt", val |-> l.First]

\* wrListOptions: sort direction and limit of the search
wrListOptions(count) ==
    [sd    |-> IF count < 0 THEN 1 ELSE -1,
     limit |-> (IF count < 0 THEN -count ELSE count) + 1]

\* col.Find(ctx, filter, options)
Find(c, f, r, opt) ==
    Take(Sorted({d \in c : Matches(d, f) /\ InRange(d, r)}, opt.sd), opt.limit)

\* wrListLoad changed to fetch with the key comparison alone, the filter of
\* the list left out
wrListLoad_rangeOnly(c, cursor, count, l) ==
    LET r       == wrListFilter(cursor, count, l)
        ld      == Find(c, "all", r, wrListOptions(count))
        looped  == IF ld = <<>> THEN <<>> ELSE SubSeq(ld, 1, Len(ld) - 1)
        hasWr   == ld # <<>>
        isEnd   == (cursor = Nil /\ count < 0)
                   \/ (count > 0 /\ Len(looped) < count)
        isStart == (cursor = Nil /\ count > 0)
                   \/ (count < 0 /\ Len(looped) < -count)
    IN  [l EXCEPT !.Range = r,
                  !.IsEnd = isEnd,
                  !.IsStart = isStart,
                  !.Collection = IF (isStart \/ isEnd) /\ hasWr
                                 THEN Append(looped, ld[Len(ld)])
                                 ELSE looped]

\* wrListLoad: the loop keeps the last fetched row out of the collection,
\* the boundary flags are computed, and the last row is added on a boundary
wrListLoad(c, cursor, count, l) ==
    LET r       == wrListFilter(cursor, count, l)
        ld      == Find(c, l.Filter, r, wrListOptions(count))
        looped  == IF ld = <<>> THEN <<>> ELSE SubSeq(ld, 1, Len(ld) - 1)
        hasWr   == ld # <<>>
        isEnd   == (cursor = Nil /\ count < 0)
                   \/ (count > 0 /\ Len(looped) < count)
        isStart == (cursor = Nil /\ count > 0)
                   \/ (count < 0 /\ Len(looped) < -count)
    IN  [l EXCEPT !.Range = r,
                  !.IsEnd = isEnd,
                  !.IsStart = isStart,
                  !.Collection = IF (isStart \/ isEnd) /\ hasWr
                                 THEN Append(looped, ld[Len(ld)])
                                 ELSE looped]

\* types.WithdrawRequestList.Reverse
Reverse(s) == [i \in 1..Len(s) |-> s[Len(s) + 1 - i]]

\* ------------------------------------------------------------------------
\* The withdraw requests list: operations
\* ------------------------------------------------------------------------

ListStart ==
    /\ col = {}
    /\ rpc = "idle"
    /\ rq = NoRq
    /\ list = NoList
    /\ rerr = "none"
    /\ dirty = FALSE
    /\ dbOps = <<>>
    /\ page1 = NoPage

\* col.InsertOne(ctx, wr) of AddWithdrawal: a new document; _id is unique
InsertOne(d) ==
    /\ \A e \in col : e.pk # d.pk
    /\ col' = col \cup {d}
    /\ dirty' = (dirty \/ rpc # "idle")
    /\ page1' = NoPage
    /\ UNCHANGED <<rpc, rq, list, rerr, dbOps>>
    /\ UNCHANGED <<dispVars, extVars>>

\* Withdrawals changed to start the list of a zero count as of any other
Withdrawals_noZeroCheck(cursor, count, filter) ==
    /\ rpc = "idle"
    /\ rq' = [cursor |-> cursor, count |-> count, filter |-> filter]
    /\ list' = NoList
    /\ dirty' = FALSE
    /\ dbOps' = <<>>
    /\ rpc' = "init" /\ rerr' = "none"
    /\ UNCHANGED <<col, page1>>
    /\ UNCHANGED <<dispVars, extVars>>

\* Withdrawals is called; a zero count is refused at once
Withdrawals(cursor, count, filter) ==
    /\ rpc = "idle"
    /\ rq' = [cursor |-> cursor, count |-> count, filter |-> filter]
    /\ list' = NoList
    /\ dirty' = FALSE
    /\ dbOps' = <<>>
    /\ IF count = 0
       THEN rpc' = "done" /\ rerr' = "zero"
       ELSE rpc' = "init" /\ rerr' = "none"
    /\ UNCHANGED <<col, page1>>
    /\ UNCHANGED <<dispVars, extVars>>

\* wrListInit changed to count every document of the collection
wrListInit_countAll ==
    /\ rpc = "init"
    /\ LET total == Cardinality(col)
       IN  /\ list' = [NoList EXCEPT !.Total = total,
                                     !.IsStart = (total = 0),
                                     !.IsEnd = (total = 0),
                                     !.Filter = rq.filter]
           /\ rpc' = IF 0 < total THEN "marks" ELSE "done"
    /\ dbOps' = Append(dbOps, "count")
    /\ UNCHANGED <<col, rq, rerr, dirty, page1>>
    /\ UNCHANGED <<dispVars, extVars>>

\* wrListInit changed to resolve the range marks of an empty list as well
wrListInit_alwaysMarks ==
    /\ rpc = "init"
    /\ LET total == CountDocuments(col, rq.filter)
       IN  /\ list' = [NoList EXCEPT !.Total = total,
                                     !.IsStart = (total = 0),
                                     !.IsEnd = (total = 0),
                                     !.Filter = rq.filter]
           /\ rpc' = "marks"
    /\ dbOps' = Append(dbOps, "count")
    /\ UNCHANGED <<col, rq, rerr, dirty, page1>>
    /\ UNCHANGED <<dispVars, extVars>>

\* wrListInit: count the documents of the filter and make the list
wrListInit ==
    /\ rpc = "init"
    /\ LET total == CountDocuments(col, rq.filter)
       IN  /\ list' = [NoList EXCEPT !.Total = total,
                                     !.IsStart = (total = 0),
                                     !.IsEnd = (total = 0),
                                     !.Filter = rq.filter]
           /\ rpc' = IF 0 < total THEN "marks" ELSE "done"
    /\ dbOps' = Append(dbOps, "count")
    /\ UNCHANGED <<col, rq, rerr, dirty, page1>>
    /\ UNCHANGED <<dispVars, extVars>>

\* the call of wrListCollectRangeMarks at the end of wrListInit
CollectRangeMarks ==
    /\ rpc = "marks"
    /\ LET res == wrListCollectRangeMarks(col, list, rq.cursor, rq.count)
       IN  IF res.err
           THEN rpc' = "done" /\ rerr' = "lookup" /\ list' = NoList
           ELSE rpc' = "load" /\ rerr' = rerr /\ list' = res.list
    /\ dbOps' = Append(dbOps, "findOne")
    /\ UNCHANGED <<col, rq, dirty, page1>>
    /\ UNCHANGED <<dispVars, extVars>>

\* the call of wrListLoad in Withdrawals and the reversal that follows it
Load ==
    /\ rpc = "load"
    /\ LET loaded == wrListLoad(col, rq.cursor, rq.count, list)
       IN  list' = IF rq.count < 0
                   THEN [loaded EXCEPT !.Collection = Reverse(@)]
                   ELSE loaded
    /\ rpc' = "done"
    /\ dbOps' = Append(dbOps, "find")
    /\ UNCHANGED <<col, rq, rerr, dirty, page1>>
    /\ UNCHANGED <<dispVars, extVars>>

\* Withdrawals has returned; the next call may start. The caller keeps a
\* page it got from the top (no cursor, count > 0) to page back from it
Return ==
    /\ rpc = "done"
    /\ rpc' = "idle"
    /\ rq' = NoRq
    /\ list' = NoList
    /\ rerr' = "none"
    /\ dirty' = FALSE
    /\ dbOps' = <<>>
    /\ page1' = IF rerr = "none" /\ ~dirty /\ rq.cursor = Nil /\ rq.count > 0
                THEN [count |-> rq.count, filter |-> rq.filter,
                      Collection |-> list.Collection]
                ELSE NoPage
    /\ UNCHANGED col
    /\ UNCHANGED <<dispVars, extVars>>

\* ------------------------------------------------------------------------
\* The transaction dispatcher: events and work items
\* ------------------------------------------------------------------------

\* the address of a contract a transaction created
NewContract == MaxAddr + 1

\* the event logs of a transaction: the first topic of each log is either
\* in the topic router or not
Topics == {"known", "unknown"}

LogSeqs == UNION {[1..n -> Topics] : n \in 0..MaxLogs}

\* the sender of every transaction: the addresses are interchangeable, so
\* the recipient alone ranges over equal to the sender, different, absent
Sender == 1

\* a well-formed ingestion event; the hash of a transaction is its arrival
\* number
TrxEvents == [blk : 1..MaxBlk, trx : {TRUE}, from : {Sender},
              to : {Nil} \cup (1..MaxAddr), contract : {Nil, NewContract},
              logs : LogSeqs]

NoEvent == [blk |-> Nil, trx |-> FALSE, from |-> Sender, to |-> Nil,
            contract |-> Nil, logs |-> <<>>]

\* the malformed events: the block is missing (blk = Nil), the transaction
\* is missing (trx = FALSE)
NoBlock == [NoEvent EXCEPT !.trx = TRUE]
NoTrx == [NoEvent EXCEPT !.blk = 1]

Events == TrxEvents \cup {NoBlock, NoTrx}

Trxs == 1..MaxTrx

\* the test of dispatch on incoming data
WellFormed(e) == e.blk # Nil /\ e.trx

\* pushAccounts changed to touch each address once: no touch of the
\* recipient when it is the sender
pushAccounts_distinct(t, e) ==
    <<[q |-> "acc", trx |-> t, addr |-> e.from, act |-> "wallet",
       blk |-> e.blk, deploy |-> Nil]>>
    \o (IF e.to # Nil /\ e.to # e.from
        THEN <<[q |-> "acc", trx |-> t, addr |-> e.to, act |-> "wallet",
                blk |-> e.blk, deploy |-> Nil]>>
        ELSE <<>>)
    \o (IF e.contract = Nil
        THEN <<>>
        ELSE <<[q |-> "acc", trx |-> t, addr |-> e.contract,
                act |-> "contract", blk |-> e.blk, deploy |-> t]>>)

\* pushAccounts changed to give the deployment hash to the sender of a
\* contract creation as well
pushAccounts_deploySender(t, e) ==
    <<[q |-> "acc", trx |-> t, addr |-> e.from, act |-> "wallet",
       blk |-> e.blk, deploy |-> IF e.contract = Nil THEN Nil ELSE t]>>
    \o (IF e.to # Nil
        THEN <<[q |-> "acc", trx |-> t, addr |-> e.to, act |-> "wallet",
                blk |-> e.blk, deploy |-> Nil]>>
        ELSE <<>>)
    \o (IF e.contract = Nil
        THEN <<>>
        ELSE <<[q |-> "acc", trx |-> t, addr |-> e.contract,
                act |-> "contract", blk |-> e.blk, deploy |-> t]>>)

\* pushAccounts: the eventAcc records it sends for event e with hash t
pushAccounts(t, e) ==
    <<[q |-> "acc", trx |-> t, addr |-> e.from, act |-> "wallet",
       blk |-> e.blk, deploy |-> Nil]>>
    \o (IF e.to # Nil
        THEN <<[q |-> "acc", trx |-> t, addr |-> e.to, act |-> "wallet",
                blk |-> e.blk, deploy |-> Nil]>>
        ELSE <<>>)
    \o (IF e.contract = Nil
        THEN <<>>
        ELSE <<[q |-> "acc", trx |-> t, addr |-> e.contract,
                act |-> "contract", blk |-> e.blk, deploy |-> t]>>)

\* the types.LogRecord values the loop of process sends
LogRecords(t, e) ==
    [i \in 1..Len(e.logs) |->
        [q |-> "log", trx |-> t, addr |-> i, act |-> e.logs[i],
         blk |-> e.blk, deploy |-> Nil]]

\* all the work items process pushes for an event, in the order it does:
\* the accounts first, the logs after
WorkItems(t, e) == pushAccounts(t, e) \o LogRecords(t, e)

NoItem == [q |-> "none", trx |-> 0, addr |-> 0, act |-> "none",
           blk |-> 0, deploy |-> Nil]

\* the content of the onTransaction channel
onTransaction == SubSeq(sent, nRead + 1, Len(sent))

\* ------------------------------------------------------------------------
\* The transaction dispatcher: operations
\* ------------------------------------------------------------------------

\* init and run: the dispatcher as it starts on a store whose durable
\* checkpoint is the given one
DispStartAt(checkpoint) ==
    /\ pc = "select" /\ cur = 0 /\ wi = 0
    /\ evt = [t \in Trxs |-> NoEvent]
    /\ nIn = 0 /\ inClosed = FALSE
    /\ wg = [t \in Trxs |-> 0]
    /\ outAccount = <<>> /\ outLog = <<>>
    /\ accCur = NoItem /\ logCur = NoItem
    /\ pushed = [t \in Trxs |-> <<>>]
    /\ signaled = [t \in Trxs |-> 0]
    /\ ws = [t \in Trxs |-> "none"]
    /\ stored = {} /\ failed = {} /\ trxCount = 0 /\ cache = {}
    /\ blkObserver = 1
    /\ lastKnownBlock = checkpoint /\ lkbErr = "none" /\ lsb = 0
    /\ sent = <<>> /\ nRead = 0
    /\ tick = FALSE /\ botStopped = FALSE
    /\ sigStop = 0 /\ chClosed = FALSE /\ cl = "idle"

\* the dispatcher started on a store that holds no checkpoint yet
DispStart == DispStartAt(Nil)

\* the block number of the last event received; the chain is scanned in
\* block order
LastBlk == IF nIn = 0 THEN 1
           ELSE IF evt[nIn].blk = Nil THEN 1 ELSE evt[nIn].blk

\* dispatch changed to hand every event to process, malformed or not
dispatch_receive_noCheck(e) ==
    /\ pc = "select"
    /\ ~inClosed
    /\ nIn < MaxTrx
    /\ e.blk = Nil \/ e.blk >= LastBlk
    /\ nIn' = nIn + 1
    /\ evt' = [evt EXCEPT ![nIn + 1] = e]
    /\ pc' = "add" /\ cur' = nIn + 1 /\ wi' = 1
    /\ UNCHANGED <<inClosed, queueVars, storeVars, tickVars, stopVars,
                   outVars, listVars, extVars>>

\* dispatch, case evt, ok := <-trd.inTransaction with ok: a malformed event
\* is skipped, a well-formed one is handed to process
dispatch_receive(e) ==
    /\ pc = "select"
    /\ ~inClosed
    /\ nIn < MaxTrx
    /\ e.blk = Nil \/ e.blk >= LastBlk
    /\ nIn' = nIn + 1
    /\ evt' = [evt EXCEPT ![nIn + 1] = e]
    /\ IF WellFormed(e)
       THEN pc' = "add" /\ cur' = nIn + 1 /\ wi' = 1
       ELSE pc' = "select" /\ cur' = cur /\ wi' = wi
    /\ UNCHANGED <<inClosed, queueVars, storeVars, tickVars, stopVars,
                   outVars, listVars, extVars>>

\* the producer closes the inTransaction channel
closeIntake ==
    /\ ~inClosed
    /\ inClosed' = TRUE
    /\ UNCHANGED <<pc, cur, wi, evt, nIn, queueVars, storeVars, tickVars,
                   stopVars, outVars, listVars, extVars>>

\* the stop changed to close the queues as soon as the signal is there,
\* wherever the dispatch loop is
dispatch_stop_async ==
    /\ pc # "done"
    /\ sigStop > 0
    /\ sigStop' = sigStop - 1
    /\ pc' = IF pc = "select" THEN "done" ELSE pc
    /\ chClosed' = TRUE
    /\ UNCHANGED <<cur, wi, evt, nIn, inClosed, queueVars, storeVars,
                   tickVars, cl, outVars, listVars, extVars>>

\* dispatch, case <-trd.sigStop: the loop returns and the deferred function
\* closes sigStop, outAccount and outLog
dispatch_stop ==
    /\ pc = "select"
    /\ sigStop > 0
    /\ sigStop' = sigStop - 1
    /\ pc' = "done"
    /\ chClosed' = TRUE
    /\ UNCHANGED <<cur, wi, evt, nIn, inClosed, queueVars, storeVars,
                   tickVars, cl, outVars, listVars, extVars>>

\* dispatch, case evt, ok := <-trd.inTransaction with !ok: the loop returns
\* and the deferred function closes sigStop, outAccount and outLog
dispatch_closed ==
    /\ pc = "select"
    /\ inClosed
    /\ pc' = "done"
    /\ chClosed' = TRUE
    /\ UNCHANGED <<cur, wi, evt, nIn, inClosed, queueVars, storeVars,
                   tickVars, sigStop, cl, outVars, listVars, extVars>>

\* process changed to send a work item with no increment of the counter
\* before it
process_add_late ==
    /\ pc = "add"
    /\ pc' = "send"
    /\ UNCHANGED <<cur, wi, evt, nIn, inClosed, queueVars, storeVars,
                   tickVars, stopVars, outVars, listVars, extVars>>

\* wg.Add(1) before a work item is sent
process_add ==
    /\ pc = "add"
    /\ wg' = [wg EXCEPT ![cur] = @ + 1]
    /\ pc' = "send"
    /\ UNCHANGED <<cur, wi, evt, nIn, inClosed, outAccount, outLog, accCur,
                   logCur, pushed, signaled, storeVars, tickVars, stopVars,
                   outVars, listVars, extVars>>

\* where process goes on after work item wi
AfterItem == IF wi < Len(WorkItems(cur, evt[cur])) THEN "add" ELSE "go"

\* trd.outAccount <- &eventAcc{...} in pushAccounts; blocks on a full queue
pushAccounts_send ==
    /\ pc = "send"
    /\ LET it == WorkItems(cur, evt[cur])[wi]
       IN  /\ it.q = "acc"
           /\ Len(outAccount) < trxAddressQueueCapacity
           /\ outAccount' = Append(outAccount, it)
           /\ pushed' = [pushed EXCEPT ![cur] = Append(@, it)]
    /\ pc' = AfterItem
    /\ wi' = wi + 1
    /\ UNCHANGED <<cur, evt, nIn, inClosed, wg, outLog, accCur, logCur,
                   signaled, storeVars, tickVars, stopVars, outVars,
                   listVars, extVars>>

\* process changed to drop a log when the log queue is full
process_sendLog_drop ==
    /\ pc = "send"
    /\ LET it == WorkItems(cur, evt[cur])[wi]
           room == Len(outLog) < trxLogQueueCapacity
       IN  /\ it.q = "log"
           /\ outLog' = IF room THEN Append(outLog, it) ELSE outLog
           /\ pushed' = IF room THEN [pushed EXCEPT ![cur] = Append(@, it)]
                                ELSE pushed
           /\ wg' = IF room THEN wg ELSE [wg EXCEPT ![cur] = @ - 1]
    /\ pc' = AfterItem
    /\ wi' = wi + 1
    /\ UNCHANGED <<cur, evt, nIn, inClosed, outAccount, accCur, logCur,
                   signaled, storeVars, tickVars, stopVars, outVars,
                   listVars, extVars>>

\* trd.outLog <- &types.LogRecord{...} in process; blocks on a full queue
process_sendLog ==
    /\ pc = "send"
    /\ LET it == WorkItems(cur, evt[cur])[wi]
       IN  /\ it.q = "log"
           /\ Len(outLog) < trxLogQueueCapacity
           /\ outLog' = Append(outLog, it)
           /\ pushed' = [pushed EXCEPT ![cur] = Append(@, it)]
    /\ pc' = AfterItem
    /\ wi' = wi + 1
    /\ UNCHANGED <<cur, evt, nIn, inClosed, wg, outAccount, accCur, logCur,
                   signaled, storeVars, tickVars, stopVars, outVars,
                   listVars, extVars>>

\* process changed to wait for the counter itself before it goes on
process_go_inline ==
    /\ pc = "go"
    /\ wg[cur] = 0
    /\ ws' = [ws EXCEPT ![cur] = "wait"]
    /\ pc' = "bcast"
    /\ UNCHANGED <<cur, wi, evt, nIn, inClosed, queueVars, stored, failed,
                   trxCount, cache, blkObserver, tickVars, stopVars,
                   outVars, listVars, extVars>>

\* go trd.waitAndStore(evt, &wg)
process_go ==
    /\ pc = "go"
    /\ ws' = [ws EXCEPT ![cur] = "wait"]
    /\ pc' = "bcast"
    /\ UNCHANGED <<cur, wi, evt, nIn, inClosed, queueVars, stored, failed,
                   trxCount, cache, blkObserver, tickVars, stopVars,
                   outVars, listVars, extVars>>

\* process changed to drop the transaction when the channel is full
process_broadcast_drop ==
    /\ pc = "bcast"
    /\ sent' = IF Len(onTransaction) < onTransactionCapacity
               THEN Append(sent, cur) ELSE sent
    /\ pc' = "select"
    /\ UNCHANGED <<cur, wi, evt, nIn, inClosed, queueVars, storeVars,
                   tickVars, stopVars, nRead, listVars, extVars>>

\* process changed to broadcast the transaction once its task has ended
process_broadcast_afterStore ==
    /\ pc = "bcast"
    /\ ws[cur] = "done"
    /\ Len(onTransaction) < onTransactionCapacity
    /\ sent' = Append(sent, cur)
    /\ pc' = "select"
    /\ UNCHANGED <<cur, wi, evt, nIn, inClosed, queueVars, storeVars,
                   tickVars, stopVars, nRead, listVars, extVars>>

\* trd.onTransaction <- evt.trx; blocks while the channel is full
process_broadcast ==
    /\ pc = "bcast"
    /\ Len(onTransaction) < onTransactionCapacity
    /\ sent' = Append(sent, cur)
    /\ pc' = "select"
    /\ UNCHANGED <<cur, wi, evt, nIn, inClosed, queueVars, storeVars,
                   tickVars, stopVars, nRead, listVars, extVars>>

\* a listener reads a transaction from the notification channel
listen ==
    /\ nRead < Len(sent)
    /\ nRead' = nRead + 1
    /\ UNCHANGED <<loopVars, queueVars, storeVars, tickVars, stopVars,
                   sent, listVars, extVars>>

\* the account queue consumer takes an AccountTouch from the queue
account_take ==
    /\ accCur = NoItem
    /\ outAccount # <<>>
    /\ accCur' = Head(outAccount)
    /\ outAccount' = Tail(outAccount)
    /\ UNCHANGED <<loopVars, wg, outLog, logCur, pushed, signaled,
                   storeVars, tickVars, stopVars, outVars, listVars, extVars>>

\* the account queue consumer signals the completion of its item
account_done ==
    /\ accCur # NoItem
    /\ wg' = [wg EXCEPT ![accCur.trx] = @ - 1]
    /\ signaled' = [signaled EXCEPT ![accCur.trx] = @ + 1]
    /\ accCur' = NoItem
    /\ UNCHANGED <<loopVars, outAccount, outLog, logCur, pushed,
                   storeVars, tickVars, stopVars, outVars, listVars, extVars>>

\* the log dispatcher takes a log record from the queue
log_take ==
    /\ logCur = NoItem
    /\ outLog # <<>>
    /\ logCur' = Head(outLog)
    /\ outLog' = Tail(outLog)
    /\ UNCHANGED <<loopVars, wg, outAccount, accCur, pushed, signaled,
                   storeVars, tickVars, stopVars, outVars, listVars, extVars>>

\* the log dispatcher changed to drop a record of an unknown topic with no
\* completion signal
log_done_dropSilent ==
    /\ logCur # NoItem
    /\ wg' = IF logCur.act = "unknown" THEN wg
             ELSE [wg EXCEPT ![logCur.trx] = @ - 1]
    /\ signaled' = IF logCur.act = "unknown" THEN signaled
                   ELSE [signaled EXCEPT ![logCur.trx] = @ + 1]
    /\ logCur' = NoItem
    /\ UNCHANGED <<loopVars, outAccount, outLog, accCur, pushed,
                   storeVars, tickVars, stopVars, outVars, listVars, extVars>>

\* the log dispatcher has handled or dropped its record and signals the
\* completion
log_done ==
    /\ logCur # NoItem
    /\ wg' = [wg EXCEPT ![logCur.trx] = @ - 1]
    /\ signaled' = [signaled EXCEPT ![logCur.trx] = @ + 1]
    /\ logCur' = NoItem
    /\ UNCHANGED <<loopVars, outAccount, outLog, accCur, pushed,
                   storeVars, tickVars, stopVars, outVars, listVars, extVars>>

\* waitAndStore changed to go on without waiting for the counter
waitAndStore_noWait(t) ==
    /\ ws[t] = "wait"
    /\ ws' = [ws EXCEPT ![t] = "store"]
    /\ UNCHANGED <<loopVars, queueVars, stored, failed, trxCount, cache,
                   blkObserver, tickVars, stopVars, outVars, listVars,
                   extVars>>

\* wg.Wait() of waitAndStore returns once the counter is zero
waitAndStore_wait(t) ==
    /\ ws[t] = "wait"
    /\ wg[t] = 0
    /\ ws' = [ws EXCEPT ![t] = "store"]
    /\ UNCHANGED <<loopVars, queueVars, stored, failed, trxCount, cache,
                   blkObserver, tickVars, stopVars, outVars, listVars,
                   extVars>>

\* waitAndStore changed to end the dispatcher when the store fails
waitAndStore_storeFatal(t, ok) ==
    /\ ws[t] = "store"
    /\ stored' = IF ok THEN stored \cup {t} ELSE stored
    /\ failed' = IF ok THEN failed ELSE failed \cup {t}
    /\ trxCount' = trxCount + 1
    /\ cache' = cache \cup {t}
    /\ ws' = [ws EXCEPT ![t] = "mark"]
    /\ sigStop' = IF ok THEN sigStop ELSE 1
    /\ UNCHANGED <<loopVars, queueVars, blkObserver, tickVars, chClosed, cl,
                   outVars, listVars, extVars>>

\* StoreTransaction, which succeeds or fails (the failure is logged), then
\* IncTrxCountEstimate(1) and CacheTransaction
waitAndStore_store(t, ok) ==
    /\ ws[t] = "store"
    /\ stored' = IF ok THEN stored \cup {t} ELSE stored
    /\ failed' = IF ok THEN failed ELSE failed \cup {t}
    /\ trxCount' = trxCount + 1
    /\ cache' = cache \cup {t}
    /\ ws' = [ws EXCEPT ![t] = "mark"]
    /\ UNCHANGED <<loopVars, queueVars, blkObserver, tickVars, stopVars,
                   outVars, listVars, extVars>>

\* waitAndStore changed to keep the marker when it is ahead of the block
waitAndStore_mark_max(t) ==
    /\ ws[t] = "mark"
    /\ blkObserver' = IF blkObserver > evt[t].blk THEN blkObserver
                      ELSE evt[t].blk
    /\ ws' = [ws EXCEPT ![t] = "done"]
    /\ UNCHANGED <<loopVars, queueVars, stored, failed, trxCount, cache,
                   tickVars, stopVars, outVars, listVars, extVars>>

\* trd.blkObserver.Store(uint64(evt.blk.Number))
waitAndStore_mark(t) ==
    /\ ws[t] = "mark"
    /\ blkObserver' = evt[t].blk
    /\ ws' = [ws EXCEPT ![t] = "done"]
    /\ UNCHANGED <<loopVars, queueVars, stored, failed, trxCount, cache,
                   tickVars, stopVars, outVars, listVars, extVars>>

\* the ticker puts a tick in its channel, which holds one
ticker ==
    /\ ~botStopped
    /\ ~tick
    /\ tick' = TRUE
    /\ UNCHANGED <<loopVars, queueVars, storeVars, lastKnownBlock, lkbErr, lsb,
                   botStopped, stopVars, outVars, listVars, extVars>>

\* dispatch, case <-trd.bot.C: updateLastSeenBlock reads the marker
updateLastSeenBlock_load ==
    /\ pc = "select"
    /\ tick
    /\ tick' = FALSE
    /\ lsb' = blkObserver
    /\ pc' = "update"
    /\ UNCHANGED <<cur, wi, evt, nIn, inClosed, queueVars, storeVars,
                   lastKnownBlock, lkbErr, botStopped, stopVars, outVars,
                   listVars, extVars>>

\* updateLastSeenBlock changed to end the dispatch loop when the write
\* fails
updateLastSeenBlock_write_fatal(ok) ==
    /\ pc = "update"
    /\ lastKnownBlock' = IF ok THEN lsb ELSE lastKnownBlock
    /\ lkbErr' = IF ok THEN "nil" ELSE "error"
    /\ lsb' = 0
    /\ pc' = IF ok THEN "select" ELSE "done"
    /\ UNCHANGED <<cur, wi, evt, nIn, inClosed, queueVars, storeVars,
                   tick, botStopped, stopVars, outVars, listVars, extVars>>

\* UpdateLastKnownBlock writes the value read, or fails (logged)
updateLastSeenBlock_write(ok) ==
    /\ pc = "update"
    /\ lastKnownBlock' = IF ok THEN lsb ELSE lastKnownBlock
    /\ lkbErr' = IF ok THEN "nil" ELSE "error"
    /\ lsb' = 0
    /\ pc' = "select"
    /\ UNCHANGED <<cur, wi, evt, nIn, inClosed, queueVars, storeVars,
                   tick, botStopped, stopVars, outVars, listVars, extVars>>

\* close changed to leave the ticker running
close_stopTicker_noStop ==
    /\ cl = "idle"
    /\ cl' = "stop"
    /\ UNCHANGED <<loopVars, queueVars, storeVars, tickVars, sigStop,
                   chClosed, outVars, listVars, extVars>>

\* close: trd.bot.Stop()
close_stopTicker ==
    /\ cl = "idle"
    /\ botStopped' = TRUE
    /\ cl' = "stop"
    /\ UNCHANGED <<loopVars, queueVars, storeVars, lastKnownBlock, lkbErr, lsb,
                   tick, sigStop, chClosed, outVars, listVars, extVars>>

\* close: trd.sigStop <- true; the channel holds one value, and a send on
\* the closed channel panics
close_signal ==
    /\ cl = "stop"
    /\ chClosed \/ sigStop < 1
    /\ IF chClosed
       THEN cl' = "panic" /\ sigStop' = sigStop
       ELSE cl' = "closed" /\ sigStop' = sigStop + 1
    /\ UNCHANGED <<loopVars, queueVars, storeVars, tickVars, chClosed,
                   outVars, listVars, extVars>>

\* ------------------------------------------------------------------------
\* The governance bridge: GovernanceOptionStates
\* ------------------------------------------------------------------------

\* a proposal has at most MaxOptions options
MaxOptions == 3

\* an option has received a vote weight in 0..MaxVotes (an unsigned number
\* in the contract)
MaxVotes == 2

\* what GovernanceOptionStateById answers for one option: the state with
\* its votes, or an error
OptionAnswers ==
    [ok : {TRUE}, votes : 0..MaxVotes] \cup {[ok |-> FALSE, votes |-> 0]}

\* the proposals: the answers for the options 0..MaxOptions()-1, kept at
\* the positions 1..MaxOptions()
Proposals == UNION {[1..n -> OptionAnswers] : n \in 0..MaxOptions}

\* big.Int.Cmp: -1 if x < y, 0 if x = y, +1 if x > y
Cmp(x, y) == IF x < y THEN -1 ELSE IF x > y THEN 1 ELSE 0

\* GovernanceOptionStates, the test "is this a state we would like to
\* keep? e.g. any votes?": 0 < zero.Cmp(gs.Votes.ToInt())
KeepOption(votes) == 0 < Cmp(0, votes)

\* GovernanceOptionStates, the loop over the options from position i on:
\* an option that can not be read ends the loop, a kept one is appended
RECURSIVE CollectStates(_, _, _)
CollectStates(opts, i, res) ==
    IF i > Len(opts) THEN res
    ELSE IF ~opts[i].ok THEN res
    ELSE CollectStates(opts, i + 1,
             IF KeepOption(opts[i].votes)
             THEN Append(res, [id |-> i - 1, votes |-> opts[i].votes])
             ELSE res)

\* no GovernanceOptionStates call was made
GovStart == govOpts = <<>> /\ govPc = "idle" /\ govRes = <<>>

\* a proposal of the contract, before the call
GovInput == govOpts \in Proposals /\ govPc = "idle" /\ govRes = <<>>

\* GovernanceOptionStates: the contract or its number of options can not
\* be reached (nil and the error are returned), or the states are collected
GovernanceOptionStates(access) ==
    /\ govPc = "idle"
    /\ IF access
       THEN govPc' = "done" /\ govRes' = CollectStates(govOpts, 1, <<>>)
       ELSE govPc' = "error" /\ govRes' = <<>>
    /\ UNCHANGED <<govOpts, wrVars, listVars, dispVars>>

\* ------------------------------------------------------------------------
\* The withdraw requests store: AddWithdrawal and UpdateWithdrawal
\* ------------------------------------------------------------------------

\* delegations (address and validator pairs) are 1..MaxDeleg
MaxDeleg == 1

\* the request IDs of a delegation are 1..MaxReq
MaxReq == 2

\* the values of a withdraw request are 1..MaxVal
MaxVal == 2

\* the routines that call AddWithdrawal and UpdateWithdrawal are
\* 1..MaxCallers
MaxCallers == 2

Callers == 1..MaxCallers

\* a withdraw request: at is the pair (addr, to), req the request ID
WithdrawRequests == [at : 1..MaxDeleg, req : 1..MaxReq, val : 1..MaxVal]

NoRequest == [at |-> Nil, req |-> Nil, val |-> Nil]

IdleCaller == [pc |-> "idle", op |-> "none", wr |-> NoRequest,
               err |-> "none"]

\* the filter of UpdateWithdrawal, isWithdrawalKnown and Withdrawal:
\* addr, to and req_id
SameRequest(r, w) == r.at = w.at /\ r.req = w.req

\* isWithdrawalKnown: FindOne by addr, to and req_id finds a document
isWithdrawalKnown(store, w) ==
    \E i \in 1..Len(store) : SameRequest(store[i], w)

\* the unique index made by initWithdrawalsCollection, on addr and to only
\* (fiWithdrawalAddress, fiWithdrawalToValidator): a second document of the
\* same delegation is refused
DuplicateKey(store, w, index) ==
    index /\ \E i \in 1..Len(store) : store[i].at = w.at

\* the position of the first document UpdateOne matches
FirstMatch(store, w) ==
    CHOOSE i \in 1..Len(store) :
        /\ SameRequest(store[i], w)
        /\ \A j \in 1..(i - 1) : ~SameRequest(store[j], w)

\* col.UpdateOne(filter, $set wr, upsert): the first matching document is
\* set; with no match the document is inserted, the index permitting, and
\* MatchedCount is 0
UpdateOne(store, w, index) ==
    IF isWithdrawalKnown(store, w)
    THEN [store |-> [store EXCEPT ![FirstMatch(store, w)] = w],
          matched |-> 1, err |-> FALSE]
    ELSE IF DuplicateKey(store, w, index)
    THEN [store |-> store, matched |-> 0, err |-> TRUE]
    ELSE [store |-> Append(store, w), matched |-> 0, err |-> FALSE]

\* the error UpdateWithdrawal returns after UpdateOne
UpdateError(res) ==
    IF res.err THEN "duplicate"
    ELSE IF res.matched = 0 THEN "notfound" ELSE "none"

\* CreateMany of initWithdrawalsCollection succeeds unless two documents
\* share the key of the unique index
IndexBuilds(store) ==
    \A i, j \in 1..Len(store) : store[i].at = store[j].at => i = j

\* an empty collection, no call in progress
WrStart ==
    /\ wrStore = <<>> /\ wrIndex = FALSE /\ wrOnce = "pending"
    /\ aw = [c \in Callers |-> IdleCaller]

\* an empty collection whose indexes may have been made by an earlier run
WrInput ==
    /\ wrStore = <<>> /\ wrIndex \in BOOLEAN /\ wrOnce = "pending"
    /\ aw = [c \in Callers |-> IdleCaller]

\* AddWithdrawal, the check isWithdrawalKnown(col, wr)
AddWithdrawal_check(c, w) ==
    /\ wrOnce # "panic"
    /\ aw[c].pc \in {"idle", "done"}
    /\ aw' = [aw EXCEPT ![c] =
                [pc |-> IF isWithdrawalKnown(wrStore, w)
                        THEN "update" ELSE "insert",
                 op |-> "add", wr |-> w, err |-> "none"]]
    /\ UNCHANGED <<wrStore, wrIndex, wrOnce, govVars, listVars, dispVars>>

\* AddWithdrawal, col.InsertOne(wr): a duplicate key is returned as the
\* error of the call. The _id of the document is made by the marshaller of
\* types.WithdrawRequest: with idClash a document of the same request is
\* refused by the primary key, without it only by the unique index
AddWithdrawal_insert(c, idClash) ==
    /\ wrOnce # "panic"
    /\ aw[c].pc = "insert"
    /\ IF \/ DuplicateKey(wrStore, aw[c].wr, wrIndex)
          \/ idClash /\ isWithdrawalKnown(wrStore, aw[c].wr)
       THEN /\ aw' = [aw EXCEPT ![c].pc = "done", ![c].err = "duplicate"]
            /\ wrStore' = wrStore
       ELSE /\ aw' = [aw EXCEPT ![c].pc = "init"]
            /\ wrStore' = Append(wrStore, aw[c].wr)
    /\ UNCHANGED <<wrIndex, wrOnce, govVars, listVars, dispVars>>

\* AddWithdrawal, db.initWithdrawals.Do(initWithdrawalsCollection): the
\* first caller makes the indexes, and panics if they can not be made
AddWithdrawal_init(c) ==
    /\ wrOnce # "panic"
    /\ aw[c].pc = "init"
    /\ IF wrOnce = "done"
       THEN /\ UNCHANGED <<wrIndex, wrOnce>>
            /\ aw' = [aw EXCEPT ![c].pc = "done"]
       ELSE IF wrIndex \/ IndexBuilds(wrStore)
       THEN /\ wrIndex' = TRUE /\ wrOnce' = "done"
            /\ aw' = [aw EXCEPT ![c].pc = "done"]
       ELSE /\ wrIndex' = wrIndex /\ wrOnce' = "panic"
            /\ aw' = [aw EXCEPT ![c].pc = "panic"]
    /\ UNCHANGED <<wrStore, govVars, listVars, dispVars>>

\* AddWithdrawal, return db.UpdateWithdrawal(wr) for a known request
AddWithdrawal_update(c) ==
    /\ wrOnce # "panic"
    /\ aw[c].pc = "update"
    /\ LET res == UpdateOne(wrStore, aw[c].wr, wrIndex)
       IN  /\ wrStore' = res.store
           /\ aw' = [aw EXCEPT ![c].pc = "done",
                               ![c].err = UpdateError(res)]
    /\ UNCHANGED <<wrIndex, wrOnce, govVars, listVars, dispVars>>

\* UpdateWithdrawal called by itself
UpdateWithdrawal(c, w) ==
    /\ wrOnce # "panic"
    /\ aw[c].pc \in {"idle", "done"}
    /\ LET res == UpdateOne(wrStore, w, wrIndex)
       IN  /\ wrStore' = res.store
           /\ aw' = [aw EXCEPT ![c] =
                       [pc |-> "done", op |-> "update", wr |-> w,
                        err |-> UpdateError(res)]]
    /\ UNCHANGED <<wrIndex, wrOnce, govVars, listVars, dispVars>>

Init == ListStart /\ DispStart /\ GovStart /\ WrStart

\* the transaction pipeline: every ingestion event, no tick and no stop
Next ==
    \/ \E e \in Events : dispatch_receive(e)
    \/ process_add
    \/ pushAccounts_send
    \/ process_sendLog
    \/ process_go
    \/ process_broadcast
    \/ listen
    \/ account_take
    \/ account_done
    \/ log_take
    \/ log_done
    \/ \E t \in Trxs : waitAndStore_wait(t)
    \/ \E t \in Trxs, ok \in BOOLEAN : waitAndStore_store(t, ok)
    \/ \E t \in Trxs : waitAndStore_mark(t)

Spec == Init /\ [][Next]_vars

\* the events of plain transfers with no recipient: one AccountTouch each
PlainEvents ==
    {e \in TrxEvents : e.to = Nil /\ e.contract = Nil} \cup {NoBlock, NoTrx}

\* the transaction pipeline with the block observer ticker
TickNext ==
    \/ \E e \in PlainEvents : dispatch_receive(e)
    \/ process_add
    \/ pushAccounts_send
    \/ process_sendLog
    \/ process_go
    \/ process_broadcast
    \/ listen
    \/ account_take
    \/ account_done
    \/ log_take
    \/ log_done
    \/ \E t \in Trxs : waitAndStore_wait(t)
    \/ \E t \in Trxs, ok \in BOOLEAN : waitAndStore_store(t, ok)
    \/ \E t \in Trxs : waitAndStore_mark(t)
    \/ ticker
    \/ updateLastSeenBlock_load
    \/ \E ok \in BOOLEAN : updateLastSeenBlock_write(ok)

SpecTick == Init /\ [][TickNext]_vars

\* the pipeline with the ticker, the caller of close and the producer
\* closing the intake channel
StopNext ==
    \/ TickNext
    \/ closeIntake
    \/ dispatch_stop
    \/ dispatch_closed
    \/ close_stopTicker
    \/ close_signal

SpecStop == Init /\ [][StopNext]_vars

\* the events of transfers with no recipient that carry a burst of logs
BurstEvents ==
    [blk : 1..MaxBlk, trx : {TRUE}, from : {Sender}, to : {Nil},
     contract : {Nil},
     logs : UNION {[1..n -> Topics] : n \in 0..MaxBurst}]

\* the transaction pipeline fed with bursts of logs
LogNext ==
    \/ \E e \in BurstEvents : dispatch_receive(e)
    \/ process_add
    \/ pushAccounts_send
    \/ process_sendLog
    \/ process_go
    \/ process_broadcast
    \/ listen
    \/ account_take
    \/ account_done
    \/ log_take
    \/ log_done
    \/ \E t \in Trxs : waitAndStore_wait(t)
    \/ \E t \in Trxs, ok \in BOOLEAN : waitAndStore_store(t, ok)
    \/ \E t \in Trxs : waitAndStore_mark(t)

SpecLog == Init /\ [][LogNext]_vars

\* the checkpoint an earlier run of the dispatcher has left in the store
ResumeBlock == MaxBlk

\* the scan resumes at the checkpoint: no event of an earlier block
ResumeEvents ==
    {e \in PlainEvents : e.blk = Nil \/ e.blk >= ResumeBlock}

\* the dispatcher restarted on a store that holds a checkpoint
ResumeInit ==
    ListStart /\ DispStartAt(ResumeBlock) /\ GovStart /\ WrStart

\* the pipeline with the ticker after a restart
ResumeNext ==
    \/ \E e \in ResumeEvents : dispatch_receive(e)
    \/ process_add
    \/ pushAccounts_send
    \/ process_sendLog
    \/ process_go
    \/ process_broadcast
    \/ listen
    \/ account_take
    \/ account_done
    \/ log_take
    \/ log_done
    \/ \E t \in Trxs : waitAndStore_wait(t)
    \/ \E t \in Trxs, ok \in BOOLEAN : waitAndStore_store(t, ok)
    \/ \E t \in Trxs : waitAndStore_mark(t)
    \/ ticker
    \/ updateLastSeenBlock_load
    \/ \E ok \in BOOLEAN : updateLastSeenBlock_write(ok)

SpecResume == ResumeInit /\ [][ResumeNext]_vars

ListNext ==
    \/ \E d \in Docs : InsertOne(d)
    \/ \E cursor \in Cursors, count \in Counts, filter \in Filters :
          Withdrawals(cursor, count, filter)
    \/ wrListInit
    \/ CollectRangeMarks
    \/ Load
    \/ Return

SpecList == Init /\ [][ListNext]_vars

\* GovernanceOptionStates applied to every proposal
GovInit == ListStart /\ DispStart /\ WrStart /\ GovInput

GovNext == \E access \in BOOLEAN : GovernanceOptionStates(access)

SpecGov == GovInit /\ [][GovNext]_vars

\* concurrent callers of AddWithdrawal and UpdateWithdrawal
WrInit == ListStart /\ DispStart /\ GovStart /\ WrInput

WrNext ==
    \/ \E c \in Callers, w \in WithdrawRequests : AddWithdrawal_check(c, w)
    \/ \E c \in Callers, idClash \in BOOLEAN : AddWithdrawal_insert(c, idClash)
    \/ \E c \in Callers : AddWithdrawal_init(c)
    \/ \E c \in Callers : AddWithdrawal_update(c)
    \/ \E c \in Callers, w \in WithdrawRequests : UpdateWithdrawal(c, w)

SpecWr == WrInit /\ [][WrNext]_vars

\* concurrent callers of AddWithdrawal alone
AddNext ==
    \/ \E c \in Callers, w \in WithdrawRequests : AddWithdrawal_check(c, w)
    \/ \E c \in Callers, idClash \in BOOLEAN : AddWithdrawal_insert(c, idClash)
    \/ \E c \in Callers : AddWithdrawal_init(c)
    \/ \E c \in Callers : AddWithdrawal_update(c)

SpecAdd == WrInit /\ [][AddNext]_vars

\* ------------------------------------------------------------------------
\* Properties of the withdraw requests list
\* ------------------------------------------------------------------------

\* Withdrawals returned a window and no document was inserted meanwhile
Returned == rpc = "done" /\ rerr = "none" /\ ~dirty

\* the documents the caller's filter matches
MatchingDocs == {d \in col : Matches(d, rq.filter)}

\* the window as a set
Window == {list.Collection[i] : i \in 1..Len(list.Collection)}

\* the document the cursor names
CursorDocs == {d \in col : d.pk = rq.cursor}

AbsCount == IF rq.count < 0 THEN -rq.count ELSE rq.count

\* the matching documents after document k in the newest-first order
OlderThan(k) == {d \in MatchingDocs : SortBefore(k, d, -1)}

\* the matching documents before document k in the newest-first order
NewerThan(k) == {d \in MatchingDocs : SortBefore(d, k, -1)}

\* C2: with no cursor and count = N > 0, on a collection with more than N
\* matching documents, the window is the N documents of highest sort order,
\* highest first, with isStart = true and isEnd = false.
C2_TopPage ==
    (Returned /\ rq.cursor = Nil /\ rq.count > 0
              /\ Cardinality(MatchingDocs) > rq.count)
    => /\ list.Collection = Take(Sorted(MatchingDocs, -1), rq.count)
       /\ list.IsStart
       /\ ~list.IsEnd

\* C3: with an existing cursor k and count = N > 0 the window is the (at
\* most N) matching documents that follow k in the newest-first order,
\* nearest to k first, isStart is false, and isEnd is true exactly when no
\* matching document older than the window remains.
C3_PageAfterCursor ==
    (Returned /\ rq.cursor # Nil /\ rq.count > 0 /\ MatchingDocs # {})
    => \A k \in CursorDocs :
          /\ list.Collection = Take(Sorted(OlderThan(k), -1), rq.count)
          /\ ~list.IsStart
          /\ list.IsEnd <=> (OlderThan(k) \ Window = {})

\* the paging direction ran out of documents: no matching document lies
\* beyond the window (and the cursor) in the direction of the request
BoundaryReached ==
    LET sd == IF rq.count < 0 THEN 1 ELSE -1
        passed == Window \cup CursorDocs
    IN  ~ \E d \in MatchingDocs \ passed :
            \A a \in passed : SortBefore(a, d, sd)

\* C4: the window holds at most |count| documents, and exactly |count|
\* unless a boundary of the filtered collection was reached within the page.
C4_WindowSize ==
    Returned
    => /\ Len(list.Collection) <= AbsCount
       /\ (Len(list.Collection) = AbsCount \/ BoundaryReached)

\* C5: isStart is true iff no matching document has a higher sort key than
\* the first document of the window, and isEnd is true iff none has a lower
\* sort key than its last document.
C5_BoundaryFlags ==
    (Returned /\ list.Collection # <<>>)
    => /\ list.IsStart <=> (NewerThan(list.Collection[1]) = {})
       /\ list.IsEnd
            <=> (OlderThan(list.Collection[Len(list.Collection)]) = {})

\* the call made the given operation on the collection
HasOp(op) == \E i \in 1..Len(dbOps) : dbOps[i] = op

\* C16: Withdrawals called with count = 0 returns an error and no window
\* and makes no access to the store (no count, no anchor lookup, no fetch),
\* for every cursor and filter.
C16_ZeroCountRefused ==
    (rpc = "done" /\ rq.count = 0)
    => /\ rerr # "none"
       /\ list = NoList
       /\ dbOps = <<>>

\* a call with count = 0, a cursor and a selective filter on a collection
\* that is not empty has returned
C16_Witness ==
    /\ rpc = "done" /\ rq.count = 0
    /\ rq.cursor # Nil /\ rq.filter = "sel"
    /\ MatchingDocs # {}
    /\ rerr = "zero"

\* C17 as stated: when the cursor given does not resolve to an existing
\* key, Withdrawals returns a lookup error and no window, and fetches no
\* item.
C17_UnresolvedCursorFails ==
    (rpc = "done" /\ ~dirty /\ rq.count # 0
                  /\ rq.cursor # Nil /\ CursorDocs = {})
    => /\ rerr = "lookup"
       /\ list = NoList
       /\ ~HasOp("find")

\* C17 as amended: when the cursor given does not resolve to an existing
\* key and some document matches the filter, Withdrawals returns a lookup
\* error and no window, and fetches no item; when no document matches the
\* filter the cursor is not looked up and the empty window is returned.
C17_UnresolvedCursorFailsOnMatch ==
    (rpc = "done" /\ ~dirty /\ rq.count # 0
                  /\ rq.cursor # Nil /\ CursorDocs = {})
    => IF MatchingDocs # {}
       THEN /\ rerr = "lookup"
            /\ list = NoList
            /\ ~HasOp("find")
       ELSE /\ rerr = "none"
            /\ list.Collection = <<>>
            /\ dbOps = <<"count">>

\* a call with a cursor that names no document, on a filter that matches
\* some, has returned
C17_Witness ==
    /\ rpc = "done" /\ ~dirty /\ rq.count # 0
    /\ rq.cursor # Nil /\ CursorDocs = {}
    /\ MatchingDocs # {}
    /\ dbOps = <<"count", "findOne">>

\* the documents of the page the caller holds
Page1Docs == {page1.Collection[i] : i \in 1..Len(page1.Collection)}

\* the call in progress pages back from the last document of the top page
\* the caller holds, with the same filter and the negated count
PagesBack ==
    /\ page1 # NoPage
    /\ page1.Collection # <<>>
    /\ rq.count = -page1.count
    /\ rq.filter = page1.filter
    /\ rq.cursor = page1.Collection[Len(page1.Collection)].pk

\* C18: for a filter matching at least N documents and no concurrent
\* write, the page read forward from the top with count = N and the page
\* read backward with count = -N from the cursor of its last document hold
\* the same set of documents.
C18_RoundTrip ==
    (rpc = "done" /\ ~dirty /\ PagesBack
                  /\ Cardinality(MatchingDocs) >= page1.count)
    => /\ rerr = "none"
       /\ Window = Page1Docs

\* the documents the filter matches at the fetch, after and before the
\* document k in the newest-first order
OlderAtFetch(k) ==
    {d \in col : Matches(d, rq.filter) /\ SortBefore(k, d, -1)}

NewerAtFetch(k) ==
    {d \in col : Matches(d, rq.filter) /\ SortBefore(d, k, -1)}

\* the window and the flags a request with cursor k has to return on the
\* collection as it is at the fetch: the documents next to k on the side
\* of the request, newest first
AdjacentPage(k) ==
    IF rq.count > 0
    THEN [Collection |-> Take(Sorted(OlderAtFetch(k), -1), rq.count),
          IsStart |-> FALSE,
          IsEnd |-> Cardinality(OlderAtFetch(k)) <= rq.count]
    ELSE [Collection |->
              Reverse(Take(Sorted(NewerAtFetch(k), 1), -rq.count)),
          IsStart |-> Cardinality(NewerAtFetch(k)) <= -rq.count,
          IsEnd |-> FALSE]

\* C19: for a request with cursor k the window and its flags are those of
\* the documents next to k on the requested side when the items are
\* fetched, whatever documents were inserted before the request or between
\* its count, its anchor lookup and its fetch.
C19_StableUnderInserts ==
    [][(rpc = "load" /\ rpc' = "done" /\ rq.cursor # Nil)
        => \A k \in CursorDocs :
              /\ list'.Collection = AdjacentPage(k).Collection
              /\ list'.IsStart = AdjacentPage(k).IsStart
              /\ list'.IsEnd = AdjacentPage(k).IsEnd]_vars

\* C20: when no document matches the filter, Withdrawals returns for every
\* count other than zero a window with no items, total = 0 and both flags
\* true; when documents match, the total of the window returned is the
\* number of documents the filter matches, whatever the cursor and count.
C20_TotalOfFilter ==
    (rpc = "done" /\ ~dirty /\ rq.count # 0)
    => /\ MatchingDocs = {}
            => /\ rerr = "none"
               /\ list.Collection = <<>>
               /\ list.Total = 0
               /\ list.IsStart /\ list.IsEnd
       /\ rerr = "none" => list.Total = Cardinality(MatchingDocs)

\* a call with a cursor and a selective filter that matches nothing, on a
\* collection that is not empty, returned the empty window
C20_Witness ==
    /\ rpc = "done" /\ ~dirty /\ rq.count < 0
    /\ rq.cursor # Nil /\ rq.filter = "sel"
    /\ col # {} /\ MatchingDocs = {}
    /\ list.Total = 0 /\ list.IsStart /\ list.IsEnd

\* the window lists its documents newest first
NewestFirst ==
    \A i \in 1..(Len(list.Collection) - 1) :
        SortBefore(list.Collection[i], list.Collection[i + 1], -1)

\* C21: the documents of every window returned are in the newest-first
\* order whatever the sign of count (a backward page is reversed before it
\* is returned); with no cursor and count < 0 the window holds the |count|
\* documents of lowest sort order and isEnd is true.
C21_SameOrderBothWays ==
    Returned
    => /\ NewestFirst
       /\ (rq.cursor = Nil /\ rq.count < 0)
            => /\ list.Collection
                    = Reverse(Take(Sorted(MatchingDocs, 1), -rq.count))
               /\ list.IsEnd

\* the documents of the window whose key is the anchor of the list
AnchorInWindow == \E d \in Window : d.pk = list.First

Touches(t) == SelectSeq(pushed[t], LAMBDA it : it.q = "acc")

\* what a touch says: address, role and deployment hash
TouchOf(it) == [addr |-> it.addr, act |-> it.act, deploy |-> it.deploy]

TouchSet(t) == {TouchOf(Touches(t)[i]) : i \in 1..Len(Touches(t))}

\* every work item of transaction t was sent and has signaled completion
AllSignaled(t) ==
    /\ pushed[t] = WorkItems(t, evt[t])
    /\ signaled[t] = Len(pushed[t])

\* the task of transaction t has stored, counted, cached or marked
Persisting(t) ==
    t \in stored \cup failed \cup cache \/ ws[t] \in {"mark", "done"}

\* C1: the store of a transaction, the count increment, the cache insert
\* and the advance of the marker to its block happen only after every
\* AccountTouch and every log sent for it has signaled completion.
C1_StoreAfterSignals ==
    \A t \in Trxs : Persisting(t) => AllSignaled(t)

\* a transaction with three or more work items was stored and marked
C1_Witness ==
    \E t \in Trxs :
        /\ t \in stored /\ ws[t] = "done"
        /\ Len(pushed[t]) >= 3
        /\ evt[t].logs # <<>>
        /\ signaled[t] = Len(pushed[t])

\* process has sent every work item of transaction t
FannedOut(t) == ws[t] # "none"

\* the addresses a transaction names
NamedAddrs(e) == {e.from, e.to, e.contract} \ {Nil}

\* the number of address fields a transaction has set
NamedFields(e) ==
    1 + (IF e.to # Nil THEN 1 ELSE 0) + (IF e.contract # Nil THEN 1 ELSE 0)

\* the role of each touch: contract for the created contract, else wallet
RolesRight(t) ==
    \A i \in 1..Len(Touches(t)) :
        Touches(t)[i].act = IF Touches(t)[i].addr = evt[t].contract
                            THEN "contract" ELSE "wallet"

\* C6 as stated: the number of AccountTouch records of a transaction is the
\* number of distinct non-null addresses among from, to and the created
\* contract, the created contract with role contract, the others wallet.
C6_TouchPerDistinctAddress ==
    \A t \in Trxs :
        FannedOut(t)
        => /\ Len(Touches(t)) = Cardinality(NamedAddrs(evt[t]))
           /\ RolesRight(t)

\* C6 as amended: the number of AccountTouch records of a transaction is the
\* number of non-null address fields among from, to and the created
\* contract (a sender that is also the recipient is touched twice), the
\* created contract with role contract, the others wallet.
C6_TouchPerField ==
    \A t \in Trxs :
        FannedOut(t)
        => /\ Len(Touches(t)) = NamedFields(evt[t])
           /\ {Touches(t)[i].addr : i \in 1..Len(Touches(t))}
                = NamedAddrs(evt[t])
           /\ RolesRight(t)

\* a transaction whose sender is its recipient was fanned out: two touches
C6_Witness ==
    \E t \in Trxs :
        /\ FannedOut(t)
        /\ evt[t].to = evt[t].from
        /\ evt[t].contract = Nil
        /\ Len(Touches(t)) = 2

\* C7: a transaction with no recipient and a created contract yields
\* exactly two AccountTouch records, the sender (wallet, no deployment
\* hash) and the contract (role contract, deployment hash = the hash of the
\* transaction); in every touch the deployment hash is set only when the
\* role is contract.
C7_DeploymentTouches ==
    /\ \A t \in Trxs :
          (FannedOut(t) /\ evt[t].to = Nil /\ evt[t].contract # Nil)
          => /\ Len(Touches(t)) = 2
             /\ TouchSet(t) =
                  {[addr |-> evt[t].from, act |-> "wallet", deploy |-> Nil],
                   [addr |-> evt[t].contract, act |-> "contract",
                    deploy |-> t]}
    /\ \A t \in Trxs : \A i \in 1..Len(Touches(t)) :
          Touches(t)[i].deploy # Nil => Touches(t)[i].act = "contract"

\* a contract deployment was fanned out
C7_Witness ==
    \E t \in Trxs :
        /\ FannedOut(t)
        /\ evt[t].to = Nil /\ evt[t].contract = NewContract
        /\ Len(Touches(t)) = 2

\* C8: the durable checkpoint written by updateLastSeenBlock is the highest
\* block fully processed: every ingested transaction of a block numbered at
\* most the checkpoint had all its work signaled and is in the store.
C8_CheckpointFullyProcessed ==
    lastKnownBlock # Nil
    => \A t \in 1..nIn :
          (WellFormed(evt[t]) /\ evt[t].blk <= lastKnownBlock)
          => (AllSignaled(t) /\ t \in stored)

\* C9: a failed store is only logged: the step that fails changes nothing
\* of the dispatch loop, its queues, its channels and the stop signal, and
\* the loop is never ended by it.
C9_StoreFailureOnlyLogged ==
    [][(failed' # failed)
        => UNCHANGED <<loopVars, queueVars, stopVars, outVars, tickVars>>]_vars

\* the store of the first transaction failed, and the second was fanned
\* out, broadcast and stored all the same
C9_Witness ==
    /\ 1 \in failed
    /\ nIn = 2
    /\ AllSignaled(2)
    /\ sent = <<1, 2>>
    /\ 2 \in stored
    /\ ws[2] = "done"

\* C10: an unread notification stream does not block the dispatcher: the
\* dispatch loop is never held in process at the send on the full channel
\* while a tick waits to be served.
C10_UnreadStreamDoesNotBlock ==
    ~(pc = "bcast" /\ Len(onTransaction) >= onTransactionCapacity /\ tick)

\* the task of transaction t is held at its wait or at its store
TaskPending(t) == ws[t] \in {"wait", "store"}

\* the queue of the work item process is about to send has room
QueueHasRoom ==
    IF WorkItems(cur, evt[cur])[wi].q = "acc"
    THEN Len(outAccount) < trxAddressQueueCapacity
    ELSE Len(outLog) < trxLogQueueCapacity

\* C11: the wait on the completion counter of a transaction holds only the
\* waitAndStore task of that transaction: while the task of an earlier
\* transaction is at its wait or at its store, every step of the dispatch
\* loop for the next transaction (receive, count, send, spawn, broadcast)
\* can be taken as soon as its own channel allows it.
C11_WaitBlocksOnlyTask ==
    (\E t \in Trxs : TaskPending(t) /\ (pc = "select" \/ cur # t))
    => /\ (pc = "select" /\ nIn < MaxTrx)
            => ENABLED (\E e \in TrxEvents : dispatch_receive(e))
       /\ pc = "add" => ENABLED process_add
       /\ (pc = "send" /\ QueueHasRoom)
            => ENABLED (pushAccounts_send \/ process_sendLog)
       /\ pc = "go" => ENABLED process_go
       /\ (pc = "bcast" /\ Len(onTransaction) < onTransactionCapacity)
            => ENABLED process_broadcast

\* the second transaction was received, fanned out and broadcast while the
\* task of the first still waits for work that has not signaled
C11_Witness ==
    /\ ws[1] = "wait" /\ wg[1] > 0
    /\ sent = <<1, 2>>
    /\ pushed[2] = WorkItems(2, evt[2])
    /\ ws[2] # "none"

\* C12: the checkpoint tracker never holds the ingestion path: while the
\* write of the checkpoint started by a tick is in progress, the dispatch
\* loop can take a transaction that waits on the intake channel.
C12_CheckpointWriteDoesNotBlock ==
    (pc = "update" /\ nIn < MaxTrx)
    => ENABLED (\E e \in PlainEvents : dispatch_receive(e))

\* the arrival numbers of the well-formed events received so far, in order
WellFormedArrivals ==
    SelectSeq([i \in 1..nIn |-> i], LAMBDA t : WellFormed(evt[t]))

\* the loop is in process, before the broadcast of the event it works on
InProcess == pc \in {"add", "send", "go", "bcast"}

\* C13: the transactions sent on the notification channel are the
\* well-formed events in the order the dispatcher received them, each once,
\* none skipped, duplicated or reordered (the one process is working on is
\* sent at the end of process).
C13_BroadcastInArrivalOrder ==
    sent = IF InProcess
           THEN SubSeq(WellFormedArrivals, 1, Len(WellFormedArrivals) - 1)
           ELSE WellFormedArrivals

\* two transactions were received and broadcast
C13_Witness ==
    /\ nIn = 2
    /\ WellFormedArrivals = <<1, 2>>
    /\ sent = <<1, 2>>
    /\ nRead = 2

\* C14: the broadcast of a transaction is not gated on its persistence:
\* once its work items are sent and its task is spawned, process can send
\* it on the notification channel as soon as the channel has room, whatever
\* its completion counter and the position of its task are.
C14_BroadcastNotGated ==
    (pc = "bcast" /\ Len(onTransaction) < onTransactionCapacity)
    => ENABLED process_broadcast

\* a transaction whose store failed and a transaction none of whose work
\* has signaled were both broadcast
C14_Witness ==
    /\ sent = <<1, 2>>
    /\ 1 \in failed
    /\ signaled[2] = 0 /\ wg[2] > 0 /\ ws[2] = "wait"

\* C15: an event with no block or no transaction is skipped: nothing is
\* sent to the account queue or the log queue for it, no task is spawned
\* for it (no store, no count, no cache insert, no marker change), it is
\* not broadcast, and the loop is back at its select.
C15_MalformedSkipped ==
    /\ \A t \in 1..nIn :
          ~WellFormed(evt[t])
          => /\ pushed[t] = <<>> /\ wg[t] = 0 /\ signaled[t] = 0
             /\ ws[t] = "none"
             /\ t \notin stored \cup failed \cup cache
             /\ \A i \in 1..Len(sent) : sent[i] # t
             /\ InProcess => cur # t
    /\ trxCount = Cardinality({t \in Trxs : ws[t] \in {"mark", "done"}})

\* a malformed event was received, and the event after it was fanned out,
\* stored, marked and broadcast
C15_Witness ==
    /\ nIn = 2
    /\ ~WellFormed(evt[1]) /\ WellFormed(evt[2])
    /\ AllSignaled(2) /\ 2 \in stored /\ ws[2] = "done"
    /\ blkObserver = evt[2].blk
    /\ sent = <<2>>

\* the number of items of a sequence that are work items of transaction t
CountOf(q, t) == Len(SelectSeq(q, LAMBDA it : it.trx = t))

\* the work items of transaction t sent to a queue and not yet signaled:
\* those in the queues and those in the hands of the consumers
Outstanding(t) ==
    CountOf(outAccount, t) + CountOf(outLog, t)
    + (IF accCur # NoItem /\ accCur.trx = t THEN 1 ELSE 0)
    + (IF logCur # NoItem /\ logCur.trx = t THEN 1 ELSE 0)

\* the logs of transaction t sent so far
LogsPushed(t) == SelectSeq(pushed[t], LAMBDA it : it.q = "log")

C23_CounterCoversOutstanding ==
    \A t \in Trxs :
        /\ wg[t] >= 0
        /\ wg[t] >= Outstanding(t)
        /\ wg[t] = Outstanding(t)
                   + (IF pc = "send" /\ cur = t THEN 1 ELSE 0)

\* a consumer holds an item of a transaction while process is between the
\* increment and the send of the next item of the same transaction
C23_Witness ==
    /\ pc = "send"
    /\ accCur # NoItem /\ accCur.trx = cur
    /\ outAccount # <<>>
    /\ wg[cur] = 3

C25_NoSendAfterClose ==
    [][/\ chClosed' => pc' = "done"
       /\ chClosed
           => /\ pushed' = pushed
              /\ Len(outAccount') <= Len(outAccount)
              /\ Len(outLog') <= Len(outLog)]_vars

\* the loop was ended by the stop signal after it had fanned out a
\* transaction, and the consumers have emptied the closed queues
C25_Witness ==
    /\ chClosed /\ cl = "closed" /\ sigStop = 0
    /\ nIn >= 1 /\ pushed[1] = WorkItems(1, evt[1])
    /\ signaled[1] = Len(pushed[1])

\* a step of the dispatch routine itself
DispatchStep ==
    \/ dispatch_stop
    \/ dispatch_closed
    \/ updateLastSeenBlock_load
    \/ \E ok \in BOOLEAN : updateLastSeenBlock_write(ok)
    \/ process_add
    \/ pushAccounts_send
    \/ process_sendLog
    \/ process_go
    \/ process_broadcast

\* C26: after close() was called on a running dispatcher the dispatch loop
\* returns, from every reachable state: as long as it has not returned it
\* has a step of its own to take, also when process is at a send on a full
\* queue or on the unread notification channel and the consumers have
\* stopped.
C26_CloseAlwaysEndsLoop ==
    (cl = "closed" /\ pc # "done") => ENABLED DispatchStep

\* C27 as stated: close() stops the ticker before it sends the stop signal,
\* and no checkpoint write is started once the stop signal was sent.
C27_NoCheckpointAfterStop ==
    [][/\ (cl' # "idle" \/ sigStop' > 0) => botStopped'
       /\ cl = "closed" => ~(pc = "select" /\ pc' = "update")]_vars

\* C27 as amended: close() stops the ticker before it sends the stop
\* signal; a stopped ticker puts no new tick in its channel, and a
\* checkpoint write started after the stop signal was sent serves a tick
\* that was already waiting and takes it from the channel, so there is at
\* most one such write.
C27_TimerStoppedBeforeSignal ==
    [][/\ (cl' # "idle" \/ sigStop' > 0) => botStopped'
       /\ botStopped => (tick' => tick)
       /\ (cl = "closed" /\ pc = "select" /\ pc' = "update")
           => (tick /\ ~tick')]_vars

\* close() has stopped the ticker and sent the stop signal while a tick
\* waits in the ticker channel and the loop is at its select
C27_Witness ==
    /\ cl = "closed" /\ botStopped
    /\ sigStop = 1 /\ tick
    /\ pc = "select"

\* C28: the tasks of different transactions end in no fixed order, and
\* each of them stores the block of its own transaction in the marker
\* whatever the marker holds: the marker decreases when the task of an
\* earlier block ends after the task of a later one.
C28_MarkerIsLastFinishedBlock ==
    [][\A t \in Trxs :
          (ws[t] = "mark" /\ ws'[t] = "done") => blkObserver' = evt[t].blk]_vars

\* the checkpoint holds the later block, both tasks have ended, the task
\* of the earlier block last, and a tick has read the lower marker to
\* write it
C28_Witness ==
    /\ evt[1].blk = 1 /\ evt[2].blk = 2
    /\ ws[1] = "done" /\ ws[2] = "done"
    /\ blkObserver = 1
    /\ lastKnownBlock = 2
    /\ pc = "update" /\ lsb = 1

\* C29: every tick the dispatcher handles reads the marker and makes one
\* write of the value read; the checkpoint changes at no other step; a
\* failed write leaves the checkpoint and the whole state of the
\* dispatcher as they were and the loop goes back to its select, where the
\* next tick reads the marker again.
C29_OneWritePerTick ==
    [][/\ (pc = "select" /\ pc' = "update")
           => (tick /\ ~tick' /\ lsb' = blkObserver)
       /\ (pc = "update" /\ pc' # "update")
           => /\ pc' = "select"
              /\ lkbErr' \in {"nil", "error"}
              /\ lastKnownBlock' = IF lkbErr' = "nil" THEN lsb
                                   ELSE lastKnownBlock
              /\ UNCHANGED <<cur, wi, evt, nIn, inClosed, queueVars,
                             storeVars, stopVars, outVars>>
       /\ (lastKnownBlock' # lastKnownBlock \/ lkbErr' # lkbErr)
           => (pc = "update" /\ pc' = "select")]_vars

\* the write of an earlier tick failed (nothing was ever written) and the
\* next tick has read the marker, which a transaction of block 2 has set
\* since
C29_Witness ==
    /\ lkbErr = "error" /\ lastKnownBlock = Nil
    /\ pc = "update" /\ lsb = 2
    /\ \E t \in Trxs : ws[t] = "done" /\ evt[t].blk = 2

\* ------------------------------------------------------------------------
\* Properties of the governance bridge
\* ------------------------------------------------------------------------

\* every option state of the proposal can be read
AllReadable == \A i \in 1..Len(govOpts) : govOpts[i].ok

\* the states of the options that have received votes, in index order
VotedOptions ==
    SelectSeq([i \in 1..Len(govOpts) |->
                  [id |-> i - 1, votes |-> govOpts[i].votes]],
              LAMBDA s : s.votes > 0)

\* C31: for a proposal whose option states can all be read,
\* GovernanceOptionStates returns the states of the options that have
\* received votes (vote weight above zero), in option index order, and
\* leaves out the options with no votes.
C31_VotedOptionsReturned ==
    (govPc = "done" /\ AllReadable) => govRes = VotedOptions

\* ------------------------------------------------------------------------
\* Properties of the dispatcher: store failures, restart, close
\* ------------------------------------------------------------------------

\* C32: the marker is advanced to the block of a transaction, and the
\* transaction is added to the cache and counted in the estimate, only
\* when its durable store succeeded; a transaction whose store failed
\* leaves marker, cache and estimate unchanged.
C32_AdvanceOnlyWhenStored ==
    [][/\ cache' \subseteq stored'
       /\ trxCount' = Cardinality(stored')
       /\ blkObserver' # blkObserver =>
              \E t \in stored : ws[t] = "mark" /\ blkObserver' = evt[t].blk
       /\ \A t \in failed :
              ws'[t] # ws[t] => UNCHANGED <<blkObserver, cache, trxCount>>
      ]_vars

\* C33: a tick never lowers the durable checkpoint below the value that
\* was durable when the dispatcher started; a tick handled before any
\* transaction has completed does not overwrite the persisted checkpoint
\* with the initial value 1 of the marker.
C33_CheckpointNotBelowStart == lastKnownBlock >= ResumeBlock

\* C34: close() never sends on the closed stop channel: whatever the order
\* of close() and of the closing of the intake channel (after which the
\* dispatch loop returns by itself and closes sigStop), the send
\* trd.sigStop <- true never meets the closed channel.
C34_NoSendOnClosedStop == cl # "panic"

\* ------------------------------------------------------------------------
\* Properties of the withdraw requests list: sides, totals, empty filters
\* ------------------------------------------------------------------------

\* C35: every document of a window requested with cursor k lies strictly
\* on the requested side of k in the sort order of the list (creation
\* time, then primary key), and the window is a contiguous run of that
\* order, also when creation times and primary keys order the documents
\* differently.
C35_WindowOnRequestedSide ==
    (Returned /\ rq.cursor # Nil)
    => /\ \A k \in CursorDocs, d \in Window :
             IF rq.count > 0 THEN SortBefore(k, d, -1)
             ELSE SortBefore(d, k, -1)
       /\ \A a, b \in Window, d \in MatchingDocs :
             (SortBefore(a, d, -1) /\ SortBefore(d, b, -1)) => d \in Window

\* C36: at the step that returns a window, the window holds no more
\* documents than its total count, and a window of total 0 is not returned
\* while documents match the filter, whatever was inserted between the
\* count, the anchor lookup and the fetch of the request.
C36_WindowWithinTotal ==
    [][(rpc # "done" /\ rpc' = "done" /\ rerr' = "none")
       => /\ Len(list'.Collection) <= list'.Total
          /\ list'.Total = 0 => {d \in col' : Matches(d, rq'.filter)} = {}
      ]_vars

\* C36 as amended: when the collection does not change between the count
\* and the fetch of a request, the window holds no more documents than
\* its total count, and a window of total 0 is returned only when no
\* document matches the filter.
C36_WindowWithinTotalQuiet ==
    Returned
    => /\ Len(list.Collection) <= list.Total
       /\ list.Total = 0 => MatchingDocs = {}

\* a window that holds every document of its total, on a collection with
\* a document the filter leaves out
C36_Witness ==
    /\ Returned
    /\ rq.filter = "sel" /\ MatchingDocs # col
    /\ list.Total = 2 /\ Len(list.Collection) = 2

\* C39: the cursor is resolved only when the filter matches a document: a
\* request whose filter matches nothing makes the count and no other
\* access to the store, and returns the empty window with both flags true
\* and no error, for every cursor, one that names no existing key included.
C39_NoLookupOnEmptyFilter ==
    (rpc = "done" /\ ~dirty /\ rq.count # 0)
    => /\ HasOp("findOne") => MatchingDocs # {}
       /\ MatchingDocs = {}
            => /\ dbOps = <<"count">>
               /\ rerr = "none"
               /\ list.Collection = <<>>
               /\ list.IsStart /\ list.IsEnd

\* documents exist, none matches the filter, the cursor names no existing
\* key, and the request has returned after the count alone
C39_Witness ==
    /\ rpc = "done" /\ ~dirty /\ rq.count > 0
    /\ rq.cursor # Nil /\ CursorDocs = {}
    /\ col # {} /\ MatchingDocs = {}
    /\ dbOps = <<"count">> /\ rerr = "none"

\* ------------------------------------------------------------------------
\* Properties of the withdraw requests store
\* ------------------------------------------------------------------------

\* the records the store holds for the request w
RecordsOf(store, w) ==
    Cardinality({i \in 1..Len(store) : SameRequest(store[i], w)})

\* C37: when UpdateWithdrawal returns its not-found error for a request
\* that has no record in the store, the store is left unchanged: no record
\* of that request exists afterwards.
C37_NotFoundLeavesStore ==
    [][\A c \in Callers :
          (/\ aw'[c] # aw[c]
           /\ aw'[c].op = "update" /\ aw'[c].err = "notfound"
           /\ RecordsOf(wrStore, aw'[c].wr) = 0)
          => /\ wrStore' = wrStore
             /\ RecordsOf(wrStore', aw'[c].wr) = 0]_vars

\* C38: after any interleaving of AddWithdrawal calls for the same request
\* (address, validator, request ID), two calls that both made their
\* existence check before either inserted included, the store holds one
\* record of the request at most and no call has failed because the other
\* one inserted first.
C38_AddOnceNoFailure ==
    \A c \in Callers :
        aw[c].op = "add"
        => /\ RecordsOf(wrStore, aw[c].wr) <= 1
           /\ ~(aw[c].err = "duplicate" /\ RecordsOf(wrStore, aw[c].wr) > 0)

====
